---- MODULE Spec2Model ----
(***************************************************************************)
(* The ring keyboard of kidandcat/control: Game.Update (src/main.go and    *)
(* the older variant src/unnamed/part_000) with the sentence buffer, the   *)
(* predictor (Game.updatePrediction) and the training store.               *)
(*                                                                         *)
(* One step of the model is one call of Game.Update with one connected     *)
(* standard-layout gamepad.  The handler runs its blocks in source order   *)
(* inside that one step.  D-pad arrow keys, the right stick (window        *)
(* movement) and the visibility toggle touch none of the modelled fields   *)
(* and are left out.                                                       *)
(*                                                                         *)
(* Units: stick magnitude in hundredths, angles in AngleUnits-ths of a     *)
(* full turn, time in units of 100 ms.  Words are strings.                 *)
(***************************************************************************)
EXTENDS Integers, Sequences, FiniteSets, Bags, TLC

VARIABLES
    build,            \* "main" (src/main.go) or "legacy" (src/unnamed/part_000)
    currentSet,       \* Game.currentSet
    selectedRing,     \* Game.selectedRing
    selectedIndex,    \* Game.selectedIndex
    uppercase,        \* Game.uppercase
    sinceLastButton,  \* now.Sub(g.lastButtonTime) as of the latest tick, saturated
    markovChain,      \* Game.markovChain
    currentSentence,  \* Game.currentSentence
    trainingData,     \* Game.trainingData
    nextPrediction,   \* Game.nextPrediction
    wordFrequency,    \* Game.wordFrequency
    trainingFile,     \* ~/.config/control/markov_training.json
    rawFile,          \* ~/.config/control/typed_text.txt as startup finds it
    typed,            \* robotgo calls made by the latest tick, in order
    rawAppended,      \* strings appended to typed_text.txt by the latest tick
    logged,           \* functions whose error the latest tick logged
    screen,           \* the text the OS has received since the last Enter,
                      \* when it is watched
    trained,          \* sentences trained by Enter since startup
    before,           \* currentSentence as the latest tick found it
    in                \* the inputs sampled by the latest tick, and whether
                      \* the file writes of the tick fail (wf)

vars == <<build, currentSet, selectedRing, selectedIndex, uppercase,
          sinceLastButton, markovChain, currentSentence, trainingData,
          nextPrediction, wordFrequency, trainingFile, rawFile, typed,
          rawAppended, logged, screen, trained, before, in>>

----------------------------------------------------------------------------
(* Program constants *)

DeadZone == 10          \* magnitude > 0.1
RingBoundaryMain == 90  \* magnitude < 0.9
RingBoundaryLegacy == 95 \* magnitude < 0.95
Debounce == 2           \* 200*time.Millisecond
AngleUnits == 208       \* 2*math.Pi; 208 = lcm(16, 26), so ring segments are whole
ShortContext == 3       \* len(contextWord) <= 3

(* Bounds of the model *)

SinceCap == 3           \* saturation of now.Sub(lastButtonTime), in 100 ms
MaxWords == 3           \* entries of currentSentence
MaxWordLen == 2         \* characters typed into one word
MaxTrained == 1         \* sentences trained by Enter in one session
MaxScreen == 5          \* characters of the watched OS text

BackspaceGlyph == "[BS]"   \* the glyph U+232B of the rings
EnterGlyph == "[CR]"       \* the glyph U+21B5 of the rings
Backtick == "b"            \* stands for the backtick, which a TLA+ string cannot hold

rings ==
    << << << "0", "1", "2", "3", "4", "5", "6", "7", "8", "9",
             ".", ",", "-", "_", BackspaceGlyph, EnterGlyph >>,
          << "A", "B", "C", "D", "E", "F", "G", "H", "I", "J",
             "K", "L", "M", "N", "O", "P", "Q", "R", "S", "T",
             "U", "V", "W", "X", "Y", "Z" >> >>,
       << << "(", ")", "[", "]", "{", "}", "<", ">", "'", "\"",
             Backtick, "~", "!", "?", BackspaceGlyph, EnterGlyph >>,
          << "+", "-", "*", "/", "=", "!=", "==", "&&", "||", "%",
             "&", "|", "^", "<<", ">>", "@", "#", "$", ":", ";",
             "\\", ".", ",", "_", "->", "=>" >> >> >>

(* g.rings[set][ring], with the source's 0-based indices *)
Ring(set, ring) == rings[set + 1][ring + 1]

LowerLetters ==
    << "a", "b", "c", "d", "e", "f", "g", "h", "i", "j",
       "k", "l", "m", "n", "o", "p", "q", "r", "s", "t",
       "u", "v", "w", "x", "y", "z" >>

UpperLetters == Ring(0, 1)

(* len(selectedChar) == 1 && selectedChar >= "A" && selectedChar <= "Z" *)
IsUpperLetter(c) == \E i \in 1..Len(UpperLetters) : UpperLetters[i] = c

LowerChar(c) ==
    IF IsUpperLetter(c)
    THEN LowerLetters[CHOOSE i \in 1..Len(UpperLetters) : UpperLetters[i] = c]
    ELSE c

(* strings.ToLower *)
RECURSIVE ToLower(_)
ToLower(s) ==
    IF s = "" THEN ""
    ELSE LowerChar(SubSeq(s, 1, 1)) \o ToLower(SubSeq(s, 2, Len(s)))

(* strings.HasPrefix *)
HasPrefix(s, p) == Len(p) <= Len(s) /\ SubSeq(s, 1, Len(p)) = p

Min(a, b) == IF a < b THEN a ELSE b

----------------------------------------------------------------------------
(* The left stick *)

RingBoundary(b) == IF b = "main" THEN RingBoundaryMain ELSE RingBoundaryLegacy

(* angle := math.Atan2(x, -y); if angle < 0 { angle += 2 * math.Pi } *)
NormalizeAngle(atan) == IF atan < 0 THEN atan + AngleUnits ELSE atan

(* A selector whose index is not taken modulo the ring length *)
IndexOfNoWrap(angle, n) == (angle * n) \div AngleUnits

(* segmentAngle := (2 * math.Pi) / float64(len(currentRing));
   int(angle/segmentAngle) % len(currentRing) *)
IndexOf(angle, n) == ((angle * n) \div AngleUnits) % n

(* A selector that keeps the boundary magnitude in the inner ring *)
RingOfInclusive(b, mag) == IF mag <= RingBoundary(b) THEN 0 ELSE 1

(* The ring chosen from the magnitude *)
RingOf(b, mag) == IF mag < RingBoundary(b) THEN 0 ELSE 1

(* A selector that follows the stick inside the dead zone too *)
SelectStepRecentres(b, g, i) ==
    LET ring == RingOf(b, i.mag)
    IN  [g EXCEPT !.selectedRing = ring,
                  !.selectedIndex = IndexOf(NormalizeAngle(i.atan),
                                            Len(Ring(g.currentSet, ring)))]

(* "Determine which ring based on magnitude" and "Calculate selected
   character based on angle": both only outside the dead zone *)
SelectStep(b, g, i) ==
    IF i.mag > DeadZone
    THEN LET ring == RingOf(b, i.mag)
             angle == NormalizeAngle(i.atan)
             currentRing == Ring(g.currentSet, ring)
         IN  [g EXCEPT !.selectedRing = ring,
                       !.selectedIndex = IndexOf(angle, Len(currentRing))]
    ELSE g

----------------------------------------------------------------------------
(* The Markov chain (github.com/mb-14/gomarkov, order 1) and the word
   frequencies.  A chain is the bag of its (current, next) pairs. *)

StartToken == "$"
EndToken == "^"

NilChain == [nil |-> TRUE, frequencyMat |-> EmptyBag]

(* gomarkov.NewChain(1) *)
NewChain == [nil |-> FALSE, frequencyMat |-> EmptyBag]

RECURSIVE AddPairs(_, _)
AddPairs(mat, tokens) ==
    IF Len(tokens) < 2 THEN mat
    ELSE AddPairs(mat (+) SetToBag({<<tokens[1], tokens[2]>>}), Tail(tokens))

(* g.markovChain.Add(sentence): the sentence between one start and one end
   token, every adjacent pair counted *)
ChainAdd(chain, sentence) ==
    [chain EXCEPT !.frequencyMat =
        AddPairs(@, <<StartToken>> \o sentence \o <<EndToken>>)]

(* The next tokens recorded after a context *)
Successors(chain, context) ==
    {p[2] : p \in {q \in BagToSet(chain.frequencyMat) : q[1] = context}}

(* g.markovChain.Generate([]string{context}): nothing after the end token,
   an error for an unknown context, else one of the recorded next tokens
   (drawn at random by weight) *)
Generate(chain, context) ==
    IF context = EndToken THEN {[next |-> "", err |-> FALSE]}
    ELSE IF Successors(chain, context) = {} THEN {[next |-> "", err |-> TRUE]}
    ELSE {[next |-> n, err |-> FALSE] : n \in Successors(chain, context)}

RECURSIVE CountWords(_, _)
(* for _, word := range sentence { g.wordFrequency[strings.ToLower(word)]++ } *)
CountWords(freq, sentence) ==
    IF sentence = <<>> THEN freq
    ELSE CountWords(freq (+) SetToBag({ToLower(Head(sentence))}), Tail(sentence))

RECURSIVE CountNonEmptyWords(_, _)
(* the same loop with "if word != \"\"" around the increment *)
CountNonEmptyWords(freq, sentence) ==
    IF sentence = <<>> THEN freq
    ELSE CountNonEmptyWords(
            IF Head(sentence) # ""
            THEN freq (+) SetToBag({ToLower(Head(sentence))}) ELSE freq,
            Tail(sentence))

SeedSentences ==
    << <<"hello", "world">>,
       <<"how", "are", "you">>,
       <<"the", "quick", "brown", "fox">>,
       <<"I", "am", "fine">>,
       <<"thank", "you", "very", "much">>,
       <<"what", "is", "your", "name">>,
       <<"nice", "to", "meet", "you">>,
       <<"have", "a", "good", "day">>,
       <<"see", "you", "later">>,
       <<"good", "morning">>,
       <<"good", "afternoon">>,
       <<"good", "evening">>,
       <<"ok", "thanks">>,
       <<"ok", "I", "will">>,
       <<"ok", "let", "me", "check">>,
       <<"ok", "sounds", "good">>,
       <<"yes", "I", "agree">>,
       <<"no", "thank", "you">>,
       <<"please", "help", "me">>,
       <<"can", "you", "help">>,
       <<"this", "is", "great">>,
       <<"that", "is", "awesome">> >>

commonFollowUps == <<"the", "a", "is", "are", "and", "to", "in", "it", "that", "of">>

DefaultPrediction == "the"

----------------------------------------------------------------------------
(* Game.updatePrediction: the set of states it can leave, one per outcome of
   the random draw *)

SetPrediction(g, p) == [g EXCEPT !.nextPrediction = p]

(* A predictor without a default for long contexts *)
FallbackShortOnly(contextWord) ==
    IF Len(contextWord) <= ShortContext THEN commonFollowUps[1] ELSE ""

(* The fallback when Generate fails or returns "" *)
FallbackPrediction(contextWord) ==
    IF Len(contextWord) <= ShortContext
    THEN (IF Len(commonFollowUps) > 0 THEN commonFollowUps[1] ELSE "")
    ELSE DefaultPrediction

(* A predictor whose context is the last entry of the buffer *)
PredictFromLastWord(g, contextWord) ==
    { SetPrediction(g, IF ~o.err /\ o.next # "" THEN o.next
                       ELSE FallbackPrediction(g.currentSentence[Len(g.currentSentence)]))
      : o \in Generate(g.markovChain, g.currentSentence[Len(g.currentSentence)]) }

(* "Generate next word prediction based on previous word" *)
PredictFromContext(g, contextWord) ==
    { SetPrediction(g, IF ~o.err /\ o.next # "" THEN o.next
                       ELSE FallbackPrediction(contextWord))
      : o \in Generate(g.markovChain, contextWord) }

(* An autocompletion that asks the chain *)
AutocompleteFromChain(g, currentWord) == PredictFromContext(g, currentWord)

(* "Autocomplete based on word frequency": a word of the frequency map that
   starts with the lowered partial word, is not equal to it, and whose count
   no other such word exceeds; the map is walked in no fixed order *)
Autocomplete(g, currentWord) ==
    LET lowerCurrent == ToLower(currentWord)
        candidates == {w \in BagToSet(g.wordFrequency) :
                          HasPrefix(w, lowerCurrent) /\ w # lowerCurrent}
        best == {w \in candidates :
                    \A v \in candidates : g.wordFrequency[v] <= g.wordFrequency[w]}
    IN  IF candidates = {} THEN {SetPrediction(g, "")}
        ELSE {SetPrediction(g, w) : w \in best}

updatePrediction(g) ==
    IF g.markovChain.nil THEN {SetPrediction(g, "")}
    ELSE IF Len(g.currentSentence) = 0
    THEN { SetPrediction(g, IF ~o.err /\ o.next # "" THEN o.next ELSE "")
           : o \in Generate(g.markovChain, "") }
    ELSE
      LET n == Len(g.currentSentence)
          currentWord == g.currentSentence[n]
          contextWord ==
              IF currentWord = "" /\ n > 1 THEN g.currentSentence[n - 1]
              ELSE IF currentWord # ""
              THEN (IF n > 1 THEN g.currentSentence[n - 1] ELSE currentWord)
              ELSE ""
          isPartialWord == currentWord # ""
      IN  IF contextWord # "" \/ isPartialWord
          THEN IF ~isPartialWord \/ n > 1
               THEN PredictFromContext(g, contextWord)
               ELSE IF isPartialWord /\ currentWord # ""
               THEN Autocomplete(g, currentWord)
               ELSE {g}
          ELSE {SetPrediction(g, "")}

----------------------------------------------------------------------------
(* The blocks of Game.Update.  g is the Game (with the files and the calls
   made so far in this tick), i the inputs of the tick.  A block that calls
   updatePrediction yields one state per outcome of its random draw. *)

KeyTap(g, key) == [g EXCEPT !.typed = Append(@, <<"KeyTap", key>>)]

TypeStr(g, str) == [g EXCEPT !.typed = Append(@, <<"TypeStr", str>>)]

(* A log that drops what it is given *)
appendNothing(g, text) == g

(* Game.appendToRawText: a failed write returns an error, which the callers
   only log *)
appendToRawText(g, text) ==
    IF g.writesFail THEN [g EXCEPT !.logged = Append(@, "appendToRawText")]
    ELSE [g EXCEPT !.rawAppended = Append(@, text)]

(* A save that appends the newest sentence to what the file holds *)
saveLastSentence(g) ==
    [g EXCEPT !.trainingFile =
        [exists |-> TRUE, valid |-> TRUE,
         sentences |-> (IF @.exists THEN @.sentences ELSE <<>>)
                       \o <<g.trainingData[Len(g.trainingData)]>>]]

(* Game.saveTrainingData: the whole list is written; a failed write returns
   an error, which the callers only log *)
saveTrainingData(g) ==
    IF g.writesFail THEN [g EXCEPT !.logged = Append(@, "saveTrainingData")]
    ELSE [g EXCEPT !.trainingFile =
                      [exists |-> TRUE, valid |-> TRUE,
                       sentences |-> g.trainingData]]

(* A value of the file that is not a JSON string, where a word belongs *)
NotAString == "[number]"

(* json.Unmarshal into [][]string, element by element: a value of the wrong
   type leaves the zero value in its place and decoding goes on *)
Decoded(sentences) ==
    [k \in 1..Len(sentences) |->
        [j \in 1..Len(sentences[k]) |->
            IF sentences[k][j] = NotAString THEN "" ELSE sentences[k][j]]]

(* json.Unmarshal returns the first type error it met, after decoding *)
HasTypeError(sentences) ==
    \E k \in 1..Len(sentences) : \E j \in 1..Len(sentences[k]) :
        sentences[k][j] = NotAString

(* Game.loadTrainingData: a missing file gives the empty list and no error;
   text that is not JSON gives an error and leaves the list alone; JSON of
   the wrong shape gives an error and the list as far as it decodes.  The
   caller only logs the error *)
loadTrainingData(g) ==
    IF ~g.trainingFile.exists THEN [g EXCEPT !.trainingData = <<>>]
    ELSE IF ~g.trainingFile.valid
    THEN [g EXCEPT !.logged = Append(@, "loadTrainingData")]
    ELSE [g EXCEPT !.trainingData = Decoded(g.trainingFile.sentences),
                   !.logged = IF HasTypeError(g.trainingFile.sentences)
                              THEN Append(@, "loadTrainingData") ELSE @]

RECURSIVE TrainAll(_, _)
(* "Train the chain with all saved data" *)
TrainAll(g, sentences) ==
    IF sentences = <<>> THEN g
    ELSE TrainAll([g EXCEPT !.markovChain = ChainAdd(@, Head(sentences)),
                            !.wordFrequency = CountWords(@, Head(sentences))],
                  Tail(sentences))

(* The separators of strings.FieldsFunc(text, ...): sentence endings *)
SentenceEnders == {".", "!", "?", "\n"}

(* unicode.IsSpace, as far as a typed text goes *)
Whitespace == {" ", "\t", "\n", "\r"}

(* The cutsets of strings.TrimRight and strings.TrimLeft *)
TrailingPunctuation == {",", ".", ";", ":", "\"", "'", "!", "?"}

LeadingPunctuation == {"\"", "'"}

RECURSIVE FieldsFunc(_, _)
(* strings.FieldsFunc: the maximal runs of characters outside seps, in
   order; no empty field *)
FieldsFunc(s, seps) ==
    IF s = "" THEN <<>>
    ELSE IF SubSeq(s, 1, 1) \in seps THEN FieldsFunc(SubSeq(s, 2, Len(s)), seps)
    ELSE LET stops == {k \in 1..Len(s) : SubSeq(s, k, k) \in seps}
             end == IF stops = {} THEN Len(s) + 1
                    ELSE CHOOSE k \in stops : \A j \in stops : k <= j
         IN  <<SubSeq(s, 1, end - 1)>> \o FieldsFunc(SubSeq(s, end, Len(s)), seps)

RECURSIVE TrimLeft(_, _)
(* strings.TrimLeft *)
TrimLeft(s, cutset) ==
    IF s # "" /\ SubSeq(s, 1, 1) \in cutset
    THEN TrimLeft(SubSeq(s, 2, Len(s)), cutset) ELSE s

RECURSIVE TrimRight(_, _)
(* strings.TrimRight *)
TrimRight(s, cutset) ==
    IF s # "" /\ SubSeq(s, Len(s), Len(s)) \in cutset
    THEN TrimRight(SubSeq(s, 1, Len(s) - 1), cutset) ELSE s

(* strings.TrimSpace *)
TrimSpace(s) == TrimLeft(TrimRight(s, Whitespace), Whitespace)

(* strings.Fields *)
Fields(s) == FieldsFunc(s, Whitespace)

RECURSIVE CleanWords(_)
(* "Clean each word (remove punctuation except apostrophes)": the words
   that cleaning does not empty, lower-cased *)
CleanWords(words) ==
    IF words = <<>> THEN <<>>
    ELSE LET word == TrimLeft(TrimRight(Head(words), TrailingPunctuation),
                              LeadingPunctuation)
         IN  (IF word # "" THEN <<ToLower(word)>> ELSE <<>>)
             \o CleanWords(Tail(words))

RECURSIVE TrainRawSentences(_, _)
(* "Process each sentence" of the raw text *)
TrainRawSentences(g, sentences) ==
    IF sentences = <<>> THEN g
    ELSE LET sentence == TrimSpace(Head(sentences))
             words == Fields(sentence)
             cleanWords == CleanWords(words)
             g1 == IF sentence # "" /\ Len(words) > 1
                   THEN [g EXCEPT
                           !.markovChain =
                               IF Len(cleanWords) > 1 THEN ChainAdd(@, cleanWords)
                               ELSE @,
                           !.wordFrequency = CountWords(@, cleanWords)]
                   ELSE g
         IN  TrainRawSentences(g1, Tail(sentences))

(* Game.loadRawTextAndTrain: a missing or empty file trains nothing *)
loadRawTextAndTrain(g) ==
    IF ~g.rawFile.exists \/ g.rawFile.text = "" THEN g
    ELSE TrainRawSentences(g, FieldsFunc(g.rawFile.text, SentenceEnders))

(* A startup that puts the seed sentences after whatever it loaded *)
StartupAlwaysSeeds(g) ==
    IF g.markovChain.nil
    THEN LET g1 == loadTrainingData([g EXCEPT !.markovChain = NewChain,
                                              !.wordFrequency = EmptyBag])
             g2 == [g1 EXCEPT !.trainingData = @ \o SeedSentences]
         IN  updatePrediction(
                 loadRawTextAndTrain(TrainAll(g2, g2.trainingData)))
    ELSE {g}

(* "Initialize Markov chain": runs in the first Update only *)
StartupStep(g) ==
    IF g.markovChain.nil
    THEN LET g1 == loadTrainingData([g EXCEPT !.markovChain = NewChain,
                                              !.wordFrequency = EmptyBag])
             g2 == IF Len(g1.trainingData) = 0
                   THEN [g1 EXCEPT !.trainingData = SeedSentences] ELSE g1
         IN  updatePrediction(
                 loadRawTextAndTrain(TrainAll(g2, g2.trainingData)))
    ELSE {g}

(* A backspace that keeps the word it has emptied *)
BackspaceKeepsWord(cs) ==
    IF Len(cs) > 0 /\ Len(cs[Len(cs)]) > 0
    THEN [cs EXCEPT ![Len(cs)] = SubSeq(@, 1, Len(@) - 1)]
    ELSE cs

(* "Remove last character from current word" / "Handle backspace for word
   tracking" *)
BackspaceBuffer(cs) ==
    IF Len(cs) > 0
    THEN LET lastWord == cs[Len(cs)]
         IN  IF Len(lastWord) > 0
             THEN LET cut == SubSeq(lastWord, 1, Len(lastWord) - 1)
                  IN  IF cut = "" THEN SubSeq(cs, 1, Len(cs) - 1)
                      ELSE [cs EXCEPT ![Len(cs)] = cut]
             ELSE cs
    ELSE cs

(* "Track the character for word building" *)
AppendCharBuffer(cs, outputChar) ==
    LET started == IF Len(cs) = 0 THEN <<"">> ELSE cs
    IN  [started EXCEPT ![Len(started)] = @ \o outputChar]

(* A word break that opens a new word whatever the buffer holds *)
WordBreakAlways(cs) == Append(cs, "")

(* A word break that leaves an empty buffer empty *)
WordBreakNoSeed(cs) ==
    IF Len(cs) > 0 /\ cs[Len(cs)] # "" THEN Append(cs, "") ELSE cs

(* "Start a new word" *)
WordBreakBuffer(cs) ==
    IF Len(cs) > 0 /\ cs[Len(cs)] # "" THEN Append(cs, "")
    ELSE IF Len(cs) = 0 THEN <<"">>
    ELSE cs

(* The backspace of the ring glyph and of the B button *)
BackspaceBlock(g) ==
    updatePrediction(
        [KeyTap(g, "backspace") EXCEPT
            !.currentSentence = BackspaceBuffer(g.currentSentence)])

(* An Enter that trains whatever the buffer holds *)
EnterTrainsAlways(g) ==
    LET g1 == appendToRawText(KeyTap(g, "enter"), "\n")
        g2 == saveTrainingData(
                 [g1 EXCEPT
                    !.markovChain = ChainAdd(@, g1.currentSentence),
                    !.trainingData = Append(@, g1.currentSentence),
                    !.wordFrequency = CountNonEmptyWords(@, g1.currentSentence),
                    !.trained = @ + 1,
                    !.over = @ \/ g1.trained >= MaxTrained])
    IN  [g2 EXCEPT !.currentSentence = <<>>]

(* An Enter that gives up when its log write fails *)
EnterStopsOnFailedWrite(g) ==
    LET g1 == appendToRawText(KeyTap(g, "enter"), "\n")
        g2 == IF Len(g1.currentSentence) > 1
              THEN saveTrainingData(
                     [g1 EXCEPT
                        !.markovChain = ChainAdd(@, g1.currentSentence),
                        !.trainingData = Append(@, g1.currentSentence),
                        !.wordFrequency = CountNonEmptyWords(@, g1.currentSentence),
                        !.trained = @ + 1,
                        !.over = @ \/ g1.trained >= MaxTrained])
              ELSE g1
    IN  IF g.writesFail THEN g1 ELSE [g2 EXCEPT !.currentSentence = <<>>]

(* The Enter of the ring glyph and of the Y button: no prediction update *)
EnterBlock(g) ==
    LET g1 == appendToRawText(KeyTap(g, "enter"), "\n")
        g2 == IF Len(g1.currentSentence) > 1
              THEN saveTrainingData(
                     [g1 EXCEPT
                        !.markovChain = ChainAdd(@, g1.currentSentence),
                        !.trainingData = Append(@, g1.currentSentence),
                        !.wordFrequency = CountNonEmptyWords(@, g1.currentSentence),
                        !.trained = @ + 1,
                        !.over = @ \/ g1.trained >= MaxTrained])
              ELSE g1
    IN  [g2 EXCEPT !.currentSentence = <<>>]

(* "Apply uppercase/lowercase transformation for letters" *)
OutputChar(g, selectedChar) ==
    IF IsUpperLetter(selectedChar) /\ ~g.uppercase
    THEN ToLower(selectedChar) ELSE selectedChar

(* A printable ring token *)
CharBlock(g, selectedChar) ==
    LET outputChar == OutputChar(g, selectedChar)
        g1 == appendToRawText(TypeStr(g, outputChar), outputChar)
        cs == AppendCharBuffer(g1.currentSentence, outputChar)
    IN  updatePrediction(
            [g1 EXCEPT !.currentSentence = cs,
                       !.over = @ \/ Len(cs[Len(cs)]) > MaxWordLen])

(* now.Sub(g.lastButtonTime) at this tick *)
Elapsed(g, i) == Min(g.sinceLastButton + i.dt, SinceCap)

(* A confirm that is never debounced *)
DebounceNever(g, i) == TRUE

(* now.Sub(g.lastButtonTime) > 200*time.Millisecond *)
DebounceOver(g, i) == Elapsed(g, i) > Debounce

(* A confirm that does not look at the stick *)
StickAlwaysMoved(i) == TRUE

(* "Only select if joystick is moved" *)
StickMoved(i) == i.mag > DeadZone

(* "Handle button press to select character" (RightBottom); the token is
   emitted as the build does it *)
ConfirmStep(b, g, i) ==
    LET g0 == [g EXCEPT !.sinceLastButton = Elapsed(g, i)]
        currentRing == Ring(g.currentSet, g.selectedRing)
    IN  IF i.a /\ DebounceOver(g, i) /\ StickMoved(i)
           /\ g.selectedIndex < Len(currentRing)
        THEN LET selectedChar == currentRing[g.selectedIndex + 1]
                 g1 == [g0 EXCEPT !.sinceLastButton = 0]
             IN  IF b = "legacy"
                 THEN { IF selectedChar = BackspaceGlyph THEN KeyTap(g1, "backspace")
                        ELSE IF selectedChar = EnterGlyph THEN KeyTap(g1, "enter")
                        ELSE TypeStr(g1, OutputChar(g1, selectedChar)) }
                 ELSE IF selectedChar = BackspaceGlyph THEN BackspaceBlock(g1)
                 ELSE IF selectedChar = EnterGlyph THEN {EnterBlock(g1)}
                 ELSE CharBlock(g1, selectedChar)
        ELSE {g0}

(* "Delete one character with B button (RightRight)" *)
BButtonStep(b, g, i) ==
    IF ~i.b THEN {g}
    ELSE IF b = "legacy" THEN {KeyTap(g, "backspace")}
    ELSE BackspaceBlock(g)

(* "Add space with X button (RightLeft)" *)
XButtonStep(b, g, i) ==
    IF ~i.x THEN {g}
    ELSE IF b = "legacy" THEN {TypeStr(g, " ")}
    ELSE LET g1 == appendToRawText(TypeStr(g, " "), " ")
             cs == WordBreakBuffer(g1.currentSentence)
         IN  updatePrediction(
                 [g1 EXCEPT !.currentSentence = cs,
                            !.over = @ \/ Len(cs) > MaxWords])

(* "Add new line with Y button (RightTop)" *)
YButtonStep(b, g, i) ==
    IF ~i.y THEN g
    ELSE IF b = "legacy" THEN KeyTap(g, "enter")
    ELSE EnterBlock(g)

(* "Hold L1/button 4 to show secondary character set", "Hold R1/button 5
   for uppercase" *)
ModifierStep(g, i) ==
    [g EXCEPT !.currentSet = IF i.l1 THEN 1 ELSE 0,
              !.uppercase = i.r1]

RECURSIVE TapBackspaces(_, _)
(* for i := 0; i < len(currentWord); i++ { robotgo.KeyTap("backspace") } *)
TapBackspaces(g, n) ==
    IF n = 0 THEN g ELSE TapBackspaces(KeyTap(g, "backspace"), n - 1)

(* An acceptance that opens no new word *)
AcceptBufferNoNewWord(cs, prediction) ==
    IF Len(cs) = 0 THEN <<prediction>>
    ELSE [cs EXCEPT ![Len(cs)] = prediction]

(* "Update sentence tracking with the complete word" *)
AcceptBuffer(cs, prediction) ==
    IF Len(cs) = 0 THEN <<prediction, "">>
    ELSE Append([cs EXCEPT ![Len(cs)] = prediction], "")

(* An acceptance that always types the whole suggestion on top of the word
   in progress *)
AcceptTypesWhole(b, g, i) ==
    IF i.r2 /\ b = "main" /\ g.nextPrediction # ""
    THEN LET toType == g.nextPrediction \o " "
             g2 == appendToRawText(TypeStr(g, toType), toType)
             after == AcceptBuffer(g.currentSentence, g.nextPrediction)
         IN  updatePrediction(
                 [g2 EXCEPT !.currentSentence = after,
                            !.over = @ \/ Len(after) > MaxWords])
    ELSE {g}

(* "R2/button 7 for accepting word prediction" (main.go only) *)
AcceptStep(b, g, i) ==
    IF i.r2 /\ b = "main" /\ g.nextPrediction # ""
    THEN LET cs == g.currentSentence
             partial == Len(cs) > 0 /\ cs[Len(cs)] # ""
             currentWord == IF partial THEN cs[Len(cs)] ELSE ""
             continues == partial /\
                 HasPrefix(ToLower(g.nextPrediction), ToLower(currentWord))
             toType ==
                 IF continues
                 THEN SubSeq(g.nextPrediction, Len(currentWord) + 1,
                             Len(g.nextPrediction)) \o " "
                 ELSE g.nextPrediction \o " "
             g1 == IF partial /\ ~continues
                   THEN TapBackspaces(g, Len(currentWord)) ELSE g
             g2 == appendToRawText(TypeStr(g1, toType), toType)
             after == AcceptBuffer(cs, g.nextPrediction)
         IN  updatePrediction(
                 [g2 EXCEPT !.currentSentence = after,
                            !.over = @ \/ Len(after) > MaxWords])
    ELSE {g}

(* Game.Update: the blocks in source order; the result is the set of states
   the tick can end in *)
UpdateResults(b, g, i) ==
    LET g0 == [g EXCEPT !.writesFail = i.wf]
        s0 == IF b = "main" THEN StartupStep(g0) ELSE {g0}
        s1 == {SelectStep(b, s, i) : s \in s0}
        s2 == UNION {ConfirmStep(b, s, i) : s \in s1}
        s3 == UNION {BButtonStep(b, s, i) : s \in s2}
        s4 == UNION {XButtonStep(b, s, i) : s \in s3}
        s5 == {ModifierStep(YButtonStep(b, s, i), i) : s \in s4}
    IN  UNION {AcceptStep(b, s, i) : s \in s5}

----------------------------------------------------------------------------
(* The state machine *)

(* The Game as the tick finds it: no call made yet in this tick *)
Game ==
    [currentSet |-> currentSet, selectedRing |-> selectedRing,
     selectedIndex |-> selectedIndex, uppercase |-> uppercase,
     sinceLastButton |-> sinceLastButton, markovChain |-> markovChain,
     currentSentence |-> currentSentence, trainingData |-> trainingData,
     nextPrediction |-> nextPrediction, wordFrequency |-> wordFrequency,
     trainingFile |-> trainingFile, rawFile |-> rawFile,
     typed |-> <<>>, rawAppended |-> <<>>, logged |-> <<>>,
     trained |-> trained, over |-> FALSE, writesFail |-> FALSE]

Becomes(s) ==
    /\ currentSet' = s.currentSet
    /\ selectedRing' = s.selectedRing
    /\ selectedIndex' = s.selectedIndex
    /\ uppercase' = s.uppercase
    /\ sinceLastButton' = s.sinceLastButton
    /\ markovChain' = s.markovChain
    /\ currentSentence' = s.currentSentence
    /\ trainingData' = s.trainingData
    /\ nextPrediction' = s.nextPrediction
    /\ wordFrequency' = s.wordFrequency
    /\ trainingFile' = s.trainingFile
    /\ typed' = s.typed
    /\ rawAppended' = s.rawAppended
    /\ logged' = s.logged
    /\ trained' = s.trained

(* The OS text after one robotgo call: TypeStr adds its string at the end,
   a backspace removes the last character, Enter starts a new line *)
AfterCall(text, call) ==
    IF call[1] = "TypeStr" THEN text \o call[2]
    ELSE IF call[2] = "backspace"
    THEN (IF text = "" THEN "" ELSE SubSeq(text, 1, Len(text) - 1))
    ELSE ""

RECURSIVE AfterCalls(_, _)
AfterCalls(text, calls) ==
    IF calls = <<>> THEN text
    ELSE AfterCalls(AfterCall(text, Head(calls)), Tail(calls))

(* One call of Game.Update with inputs i; a tick that would pass a bound of
   the model is not taken *)
Update(i) ==
    /\ \E s \in UpdateResults(build, Game, i) : ~s.over /\ Becomes(s)
    /\ screen' = IF screen.on
                 THEN [screen EXCEPT !.text = AfterCalls(@, typed')]
                 ELSE screen
    /\ Len(screen'.text) <= MaxScreen
    /\ before' = currentSentence
    /\ in' = i
    /\ UNCHANGED <<build, rawFile>>

NoInput ==
    [mag |-> 0, atan |-> 0, dt |-> SinceCap, a |-> FALSE, b |-> FALSE,
     x |-> FALSE, y |-> FALSE, l1 |-> FALSE, r1 |-> FALSE, r2 |-> FALSE,
     wf |-> FALSE]

(* A training file left by an earlier session *)
StoredSentences == << <<"I", "am">>, <<"i", "is", "it">> >>

NoTrainingFile == [exists |-> FALSE, valid |-> TRUE, sentences |-> <<>>]

StoredTrainingFile ==
    [exists |-> TRUE, valid |-> TRUE, sentences |-> StoredSentences]

(* No raw text file yet *)
NoRawFile == [exists |-> FALSE, text |-> ""]

(* The OS text, not watched *)
Unwatched == [on |-> FALSE, text |-> ""]

(* The OS text, watched from an empty line on *)
Watched == [on |-> TRUE, text |-> ""]

(* The zero Game, beside the training file and the raw text file that
   startup will find, and the OS text *)
InitAll(files, raws, screens) ==
    /\ build \in {"main", "legacy"}
    /\ currentSet = 0
    /\ selectedRing = 0
    /\ selectedIndex = 0
    /\ uppercase = FALSE
    /\ sinceLastButton = SinceCap
    /\ markovChain = NilChain
    /\ currentSentence = <<>>
    /\ trainingData = <<>>
    /\ nextPrediction = ""
    /\ wordFrequency = EmptyBag
    /\ trainingFile \in files
    /\ rawFile \in raws
    /\ typed = <<>>
    /\ rawAppended = <<>>
    /\ logged = <<>>
    /\ screen \in screens
    /\ trained = 0
    /\ before = <<>>
    /\ in = NoInput

InitFrom(files, raws) == InitAll(files, raws, {Unwatched})

InitWith(files) == InitFrom(files, {NoRawFile})

Init == InitWith({StoredTrainingFile})

Booleans == {TRUE, FALSE}

NoButtons == [a |-> FALSE, b |-> FALSE, x |-> FALSE, y |-> FALSE, r2 |-> FALSE]

InputOf(st, dt, bs, l1, r1) ==
    [mag |-> st.mag, atan |-> st.atan, dt |-> dt, a |-> bs.a, b |-> bs.b,
     x |-> bs.x, y |-> bs.y, l1 |-> l1, r1 |-> r1, r2 |-> bs.r2,
     wf |-> FALSE]

Centred == [mag |-> 0, atan |-> 0]
OnBackspace == [mag |-> 50, atan |-> -26]
OnEnter == [mag |-> 50, atan |-> -13]
OnLetterI == [mag |-> 100, atan |-> 64]
OnLetterA == [mag |-> 100, atan |-> 0]
OnLetterB == [mag |-> 100, atan |-> 8]
OnLetterG == [mag |-> 100, atan |-> 48]

(* The inputs of the typing specification: one operation per tick, ticks
   further apart than the debounce window, no modifier held *)
TypingInputs ==
    { InputOf(st, SinceCap, [NoButtons EXCEPT !.a = TRUE], FALSE, FALSE) :
        st \in {OnBackspace, OnEnter, OnLetterI} }
    \cup
    { InputOf(Centred, SinceCap, [NoButtons EXCEPT ![k] = TRUE], FALSE, FALSE) :
        k \in {"b", "x", "y", "r2"} }

Next == \E i \in TypingInputs : Update(i)

Spec == Init /\ [][Next]_vars

(* The inputs of the acceptance specification: the letter "i", the B and X
   buttons and R2; no Enter, so the models stay as startup trained them *)
AcceptInputs ==
    { InputOf(OnLetterI, SinceCap, [NoButtons EXCEPT !.a = TRUE], FALSE, FALSE) }
    \cup
    { InputOf(Centred, SinceCap, [NoButtons EXCEPT ![k] = TRUE], FALSE, FALSE) :
        k \in {"b", "x", "r2"} }

NextAccept == \E i \in AcceptInputs : Update(i)

SpecAccept == Init /\ [][NextAccept]_vars

(* A training file whose long word is capitalised: the frequency map holds
   it case-folded, the chain as written *)
LongWordSentences == << <<"Into", "it">>, <<"i", "is">> >>

LongWordTrainingFile ==
    [exists |-> TRUE, valid |-> TRUE, sentences |-> LongWordSentences]

(* The acceptance specification started from that file *)
SpecFallback == InitWith({LongWordTrainingFile}) /\ [][NextAccept]_vars

(* The inputs of the editing specification: the letters "a" and "b", the
   backspace of the ring and of the B button, the space button *)
EditInputs ==
    { InputOf(st, SinceCap, [NoButtons EXCEPT !.a = TRUE], FALSE, FALSE) :
        st \in {OnBackspace, OnLetterA, OnLetterB} }
    \cup
    { InputOf(Centred, SinceCap, [NoButtons EXCEPT ![k] = TRUE], FALSE, FALSE) :
        k \in {"b", "x"} }

NextEdit == \E i \in EditInputs : Update(i)

SpecEdit == Init /\ [][NextEdit]_vars

(* The editing specification with the OS text watched *)
SpecScreen ==
    InitAll({StoredTrainingFile}, {NoRawFile}, {Watched}) /\ [][NextEdit]_vars

(* Raw text files left by an earlier session: one word alone; sentences of
   two words around a line of one word, with a capital and a comma; a word
   and a quotation mark that cleaning removes; an empty file *)
RawTexts == {"ok", "Hi all. ok\nit, is", "it \"", ""}

RawFiles == {[exists |-> TRUE, text |-> t] : t \in RawTexts}

(* The editing specification started beside one of those files *)
SpecRaw == InitFrom({StoredTrainingFile}, RawFiles) /\ [][NextEdit]_vars

(* The inputs of the first-run specification: the letter "g", the B and X
   buttons and R2, with no file of an earlier session *)
FirstRunInputs ==
    { InputOf(OnLetterG, SinceCap, [NoButtons EXCEPT !.a = TRUE], FALSE, FALSE) }
    \cup
    { InputOf(Centred, SinceCap, [NoButtons EXCEPT ![k] = TRUE], FALSE, FALSE) :
        k \in {"b", "x", "r2"} }

NextFirstRun == \E i \in FirstRunInputs : Update(i)

SpecFirstRun == InitWith({NoTrainingFile}) /\ [][NextFirstRun]_vars

(* The inputs of the failing-disk specification: the typing inputs, each
   with the file writes of its tick succeeding or failing *)
DiskInputs == {[i EXCEPT !.wf = f] : i \in TypingInputs, f \in Booleans}

NextDisk == \E i \in DiskInputs : Update(i)

SpecDisk == Init /\ [][NextDisk]_vars

(* A sentence file holding the empty list *)
EmptyListFile == [exists |-> TRUE, valid |-> TRUE, sentences |-> <<>>]

(* A sentence file cut short: its text is not JSON *)
NotJsonFile == [exists |-> TRUE, valid |-> FALSE, sentences |-> <<>>]

(* A sentence file that is JSON of the wrong shape: a number where the
   second word of its second sentence belongs *)
WrongShapeFile ==
    [exists |-> TRUE, valid |-> TRUE,
     sentences |-> << <<"hi", "all">>, <<"it", NotAString>> >>]

StartupTrainingFiles ==
    {NoTrainingFile, EmptyListFile, StoredTrainingFile, NotJsonFile,
     WrongShapeFile}

(* No raw text file, or one holding a sentence of two words *)
StartupRawFiles == {NoRawFile, [exists |-> TRUE, text |-> "it is"]}

(* The inputs of the startup specification: the letters "g" and "i", the
   space button and R2 *)
StartupInputs ==
    { InputOf(st, SinceCap, [NoButtons EXCEPT !.a = TRUE], FALSE, FALSE) :
        st \in {OnLetterG, OnLetterI} }
    \cup
    { InputOf(Centred, SinceCap, [NoButtons EXCEPT ![k] = TRUE], FALSE, FALSE) :
        k \in {"x", "r2"} }

NextStartup == \E i \in StartupInputs : Update(i)

SpecStartup ==
    InitFrom(StartupTrainingFiles, StartupRawFiles) /\ [][NextStartup]_vars

(* The inputs of the persistence specification: the letter "i", the space
   button and both Enters, on a first run or beside the stored file *)
PersistInputs ==
    { InputOf(st, SinceCap, [NoButtons EXCEPT !.a = TRUE], FALSE, FALSE) :
        st \in {OnEnter, OnLetterI} }
    \cup
    { InputOf(Centred, SinceCap, [NoButtons EXCEPT ![k] = TRUE], FALSE, FALSE) :
        k \in {"x", "y"} }

NextPersist == \E i \in PersistInputs : Update(i)

SpecPersist ==
    InitWith({NoTrainingFile, StoredTrainingFile}) /\ [][NextPersist]_vars

(* The inputs of the modifier specification: the stick on the first or the
   ninth token of the outer ring ("A" and "I" in the main set), the confirm
   button down or not, each modifier held or not *)
ModifierInputs ==
    { InputOf(st, SinceCap, [NoButtons EXCEPT !.a = a], l1, r1) :
        st \in {OnLetterA, OnLetterI},
        a \in Booleans, l1 \in Booleans, r1 \in Booleans }

NextModifier == \E i \in ModifierInputs : Update(i)

SpecModifier == Init /\ [][NextModifier]_vars

(* The inputs of the selector specification: the stick anywhere outside the
   dead zone with nothing pressed, or inside it with any one button or all
   of them going down and the set modifier held or not (the set a tick
   selects from is the one the tick before left) *)
SelectMagnitudes ==
    {DeadZone + 1, RingBoundaryMain - 1, RingBoundaryMain,
     RingBoundaryLegacy - 1, RingBoundaryLegacy, 100}

(* math.Atan2 lies in (-pi, pi]: the segment borders of both ring lengths
   and the angles just before them *)
SelectAngles ==
    {t \in (1 - AngleUnits \div 2)..(AngleUnits \div 2) :
        (t % 8) \in {0, 7} \/ (t % 13) \in {0, 12}}

AllButtons == [a |-> TRUE, b |-> TRUE, x |-> TRUE, y |-> TRUE, r2 |-> TRUE]

SelectInputs ==
    { InputOf([mag |-> m, atan |-> t], SinceCap, NoButtons, FALSE, FALSE) :
        m \in SelectMagnitudes, t \in SelectAngles }
    \cup
    { InputOf([mag |-> m, atan |-> t], SinceCap, bs, l1, FALSE) :
        m \in {0, DeadZone}, t \in {0, 64}, l1 \in Booleans,
        bs \in {NoButtons, AllButtons}
               \cup {[NoButtons EXCEPT ![k] = TRUE] :
                        k \in {"a", "b", "x", "y", "r2"}} }

NextSelect == \E i \in SelectInputs : Update(i)

SpecSelect == Init /\ [][NextSelect]_vars

(* The inputs of the debounce specification: confirm presses 100 ms or more
   apart, alone or with the backspace or the space button, the stick on a
   letter, on the backspace glyph or in the dead zone *)
DebounceInputs ==
    { InputOf(st, dt, bs, FALSE, FALSE) :
        st \in {Centred, [mag |-> DeadZone, atan |-> 64], OnLetterI, OnBackspace},
        dt \in {1, SinceCap},
        bs \in {NoButtons, [NoButtons EXCEPT !.a = TRUE],
                [NoButtons EXCEPT !.a = TRUE, !.b = TRUE],
                [NoButtons EXCEPT !.a = TRUE, !.x = TRUE],
                [NoButtons EXCEPT !.x = TRUE]} }

NextDebounce == \E i \in DebounceInputs : Update(i)

SpecDebounce == Init /\ [][NextDebounce]_vars

----------------------------------------------------------------------------
(* Properties of the left stick *)

(* C1: a tick whose stick magnitude is at most 0.1 leaves selectedRing and
   selectedIndex as it found them, whatever the angle and whatever buttons
   go down in the tick *)
C1_DeadZoneHoldsSelection ==
    [][in'.mag <= DeadZone =>
          /\ selectedRing' = selectedRing
          /\ selectedIndex' = selectedIndex]_vars

(* The last token of the outer ring is still selected after a dead-zone tick
   in which every button went down with the set modifier held *)
C1_Witness ==
    /\ in.mag <= DeadZone
    /\ in.a /\ in.b /\ in.x /\ in.y /\ in.r2 /\ in.l1
    /\ selectedRing = 1
    /\ selectedIndex = 25

(* C2 as stated: outside the dead zone the outer ring is active if and only
   if the magnitude is strictly above the ring boundary, so a magnitude equal
   to the boundary selects the inner ring *)
C2_BoundaryIsInner ==
    in.mag > DeadZone =>
        (selectedRing = 1 <=> in.mag > RingBoundary(build))

(* C2 as the code has it: outside the dead zone the outer ring is active if
   and only if the magnitude is at or above the ring boundary (0.9 in
   main.go, 0.95 in the older variant), the inner ring otherwise *)
C2_BoundaryIsOuter ==
    in.mag > DeadZone =>
        /\ selectedRing \in {0, 1}
        /\ selectedRing = 1 <=> in.mag >= RingBoundary(build)

(* A tick of main.go with the magnitude exactly at 0.9 has selected the
   outer ring *)
C2_Witness ==
    /\ build = "main"
    /\ in.mag = RingBoundaryMain
    /\ selectedRing = 1

(* C3: outside the dead zone selectedIndex is floor(angle / (2*pi / N)) mod N
   for the angle normalised into [0, 2*pi) and N the length of the ring the
   tick selected, in either set; it lies in 0..N-1, N is 16 or 26, and the
   angle a full turn further gives the same index *)
C3_IndexFormula ==
    in.mag > DeadZone =>
        \A set \in {0, 1} :
            LET n == Len(Ring(set, selectedRing))
                theta == in.atan % AngleUnits
            IN  /\ n = IF selectedRing = 0 THEN 16 ELSE 26
                /\ selectedIndex \in 0..(n - 1)
                /\ selectedIndex * AngleUnits <= theta * n
                /\ theta * n < (selectedIndex + 1) * AngleUnits
                /\ IndexOf(theta + AngleUnits, n) = selectedIndex

(* An angle left of the top, which math.Atan2 reports as negative, has
   selected the last token of the outer ring *)
C3_Witness ==
    /\ in.mag > DeadZone
    /\ in.atan < 0
    /\ selectedRing = 1
    /\ selectedIndex = 25

----------------------------------------------------------------------------
(* Properties of the confirm button *)

(* C4: a confirm press less than 200 ms after an accepted one emits
   nothing: the tick emits only what its other buttons emit, and the press
   does not restart the debounce window; with no other button down the
   buffer and the raw text log are untouched *)
C4_DebouncedPressEmitsNothing ==
    [][(in'.a /\ ~in'.r2 /\ sinceLastButton + in'.dt < Debounce) =>
          /\ typed' =
                (IF in'.b THEN << <<"KeyTap", "backspace">> >> ELSE <<>>)
                \o (IF in'.x THEN << <<"TypeStr", " ">> >> ELSE <<>>)
                \o (IF in'.y THEN << <<"KeyTap", "enter">> >> ELSE <<>>)
          /\ sinceLastButton' = sinceLastButton + in'.dt
          /\ (~in'.b /\ ~in'.x /\ ~in'.y) =>
                /\ rawAppended' = <<>>
                /\ currentSentence' = currentSentence
                /\ nextPrediction' = nextPrediction]_vars

(* A confirm press on a token, 100 ms after an accepted press, has emitted
   nothing *)
C4_Witness ==
    /\ in.a /\ ~in.b /\ ~in.x
    /\ in.mag > DeadZone
    /\ sinceLastButton = 1
    /\ typed = <<>>

(* C5: a confirm press in a tick whose stick magnitude is at most 0.1 does
   nothing: the tick emits only what its other buttons emit and the time
   since the last accepted press just runs on; with no other button down the
   buffer, the raw text log, both models and the suggestion are unchanged *)
C5_DeadZoneConfirmIsNoOp ==
    [][(in'.a /\ ~in'.r2 /\ in'.mag <= DeadZone
        /\ (build = "legacy" \/ ~markovChain.nil)) =>
          /\ typed' =
                (IF in'.b THEN << <<"KeyTap", "backspace">> >> ELSE <<>>)
                \o (IF in'.x THEN << <<"TypeStr", " ">> >> ELSE <<>>)
                \o (IF in'.y THEN << <<"KeyTap", "enter">> >> ELSE <<>>)
          /\ sinceLastButton' =
                (IF sinceLastButton + in'.dt < SinceCap
                 THEN sinceLastButton + in'.dt ELSE SinceCap)
          /\ (~in'.b /\ ~in'.x /\ ~in'.y) =>
                /\ rawAppended' = <<>>
                /\ currentSentence' = currentSentence
                /\ markovChain' = markovChain
                /\ wordFrequency' = wordFrequency
                /\ trainingData' = trainingData
                /\ trainingFile' = trainingFile
                /\ nextPrediction' = nextPrediction]_vars

(* A confirm press at magnitude 0.1, long after the last accepted press and
   with a word in the buffer, has emitted nothing and has not restarted the
   debounce window *)
C5_Witness ==
    /\ in.a /\ ~in.b /\ ~in.x
    /\ in.mag = DeadZone
    /\ before # <<>>
    /\ currentSentence = before
    /\ sinceLastButton = SinceCap
    /\ typed = <<>>

----------------------------------------------------------------------------
(* Properties of the sentence buffer *)

(* The tick did one backspace and nothing else: one tap of the backspace key
   is all that main.go sent to the OS *)
BackspaceOnlyTick ==
    /\ build = "main"
    /\ typed = << <<"KeyTap", "backspace">> >>
    /\ rawAppended = <<>>

(* The tick did one word break and nothing else: the X button alone *)
WordBreakOnlyTick ==
    /\ build = "main"
    /\ in.x /\ ~in.a /\ ~in.b /\ ~in.y /\ ~in.r2
    /\ typed = << <<"TypeStr", " ">> >>

(* C6: in every reachable state only the last word of the sentence buffer
   may be empty, so the buffer never holds two consecutive empty words *)
C6_OnlyLastWordEmpty ==
    \A k \in 1..(Len(currentSentence) - 1) : currentSentence[k] # ""

(* After an Enter has trained a sentence, the buffer holds two words and an
   empty word in progress again *)
C6_Witness ==
    /\ trained = MaxTrained
    /\ Len(currentSentence) = MaxWords
    /\ currentSentence[MaxWords] = ""
    /\ in.x

(* C7 as stated: backspace removes the last character of the last word and
   changes no other word; a word it empties is dropped if and only if the
   buffer holds more than one word, a sole word stays as an empty word *)
C7_SoleWordStays ==
    (BackspaceOnlyTick /\ before # <<>> /\ before[Len(before)] # "") =>
        LET n == Len(before)
            cut == SubSeq(before[n], 1, Len(before[n]) - 1)
        IN  IF cut # "" THEN currentSentence = [before EXCEPT ![n] = cut]
            ELSE IF n > 1 THEN currentSentence = SubSeq(before, 1, n - 1)
            ELSE currentSentence = <<"">>

(* C7 as the code has it: backspace removes the last character of the last
   word and changes no other word; a word it empties is dropped whether or
   not the buffer holds other words, so a sole word leaves no word behind *)
C7_EmptiedWordDropped ==
    (BackspaceOnlyTick /\ before # <<>> /\ before[Len(before)] # "") =>
        LET n == Len(before)
            cut == SubSeq(before[n], 1, Len(before[n]) - 1)
        IN  IF cut # "" THEN currentSentence = [before EXCEPT ![n] = cut]
            ELSE currentSentence = SubSeq(before, 1, n - 1)

(* A backspace on a buffer holding the sole word "a" has left the buffer
   without any word *)
C7_Witness ==
    /\ BackspaceOnlyTick
    /\ before = <<"a">>
    /\ currentSentence = <<>>

(* C8: a backspace that deletes the only character of a word typed after a
   word break leaves the previous words followed by one empty word in
   progress: "a", word break, "b", backspace gives <<"a", "">> *)
C8_BackspaceKeepsWordInProgress ==
    (BackspaceOnlyTick /\ Len(before) > 1 /\ Len(before[Len(before)]) = 1) =>
        currentSentence = [before EXCEPT ![Len(before)] = ""]

(* C9: on a buffer of more than one word whose last word is empty a word
   break changes nothing, and a backspace drops the empty last word:
   <<"a", "">> becomes <<"a">> *)
C9_EmptyWordCollapse ==
    /\ (WordBreakOnlyTick /\ Len(before) > 1 /\ before[Len(before)] = "") =>
          currentSentence = before
    /\ (BackspaceOnlyTick /\ Len(before) > 1 /\ before[Len(before)] = "") =>
          currentSentence = SubSeq(before, 1, Len(before) - 1)

(* C10: a word break on an empty buffer yields exactly one empty word, on a
   buffer whose last word is non-empty it appends exactly one empty word,
   and on a buffer whose last word is empty it changes nothing; no existing
   word is modified *)
C10_WordBreak ==
    WordBreakOnlyTick =>
        /\ before = <<>> => currentSentence = <<"">>
        /\ (before # <<>> /\ before[Len(before)] # "") =>
              /\ Len(currentSentence) = Len(before) + 1
              /\ currentSentence[Len(currentSentence)] = ""
        /\ (before # <<>> /\ before[Len(before)] = "") =>
              currentSentence = before
        /\ \A k \in 1..Len(before) : currentSentence[k] = before[k]

(* A second word break after "a" has left the buffer as the first one made
   it *)
C10_Witness ==
    /\ WordBreakOnlyTick
    /\ before = <<"a", "">>
    /\ currentSentence = before

----------------------------------------------------------------------------
(* Properties of Enter *)

(* C11: an Enter, of the ring or of the Y button, trains the chain and the
   word frequencies and appends the buffer to the sentence list (which it
   saves) if and only if the buffer holds more than one entry; with zero or
   one entry the models, the list and its file are unchanged; in every case
   the buffer is empty after the Enter *)
C11_EnterTrainsIffTwoEntries ==
    [][(build = "main" /\ ~markovChain.nil
        /\ typed' = << <<"KeyTap", "enter">> >>) =>
          /\ currentSentence' = <<>>
          /\ IF Len(currentSentence) > 1
             THEN /\ trainingData' = Append(trainingData, currentSentence)
                  /\ trainingFile' = [exists |-> TRUE, valid |-> TRUE,
                                      sentences |-> trainingData']
                  /\ markovChain' # markovChain
                  /\ wordFrequency' # wordFrequency
                  /\ \A k \in 1..(Len(currentSentence) - 1) :
                        CopiesIn(<<currentSentence[k], currentSentence[k + 1]>>,
                                 markovChain'.frequencyMat)
                        > CopiesIn(<<currentSentence[k], currentSentence[k + 1]>>,
                                   markovChain.frequencyMat)
             ELSE /\ trainingData' = trainingData
                  /\ trainingFile' = trainingFile
                  /\ markovChain' = markovChain
                  /\ wordFrequency' = wordFrequency]_vars

(* The Y button has trained the two entries "i" and "" and has left the
   buffer empty *)
C11_Witness ==
    /\ in.y
    /\ before = <<"i", "">>
    /\ currentSentence = <<>>
    /\ trainingData = Append(StoredSentences, <<"i", "">>)

----------------------------------------------------------------------------
(* Properties of the predictor *)

(* The first words of the trained sentences *)
SentenceStarts == {trainingData[k][1] : k \in 1..Len(trainingData)}

(* C12: with no word in the buffer the predictor asks the chain for the
   start of a sentence: once a backspace has recomputed the suggestion on an
   empty buffer, the suggestion is the first word of a trained sentence if
   any sentence was trained, and empty only if none was *)
C12_EmptyBufferSuggestsSentenceStart ==
    (BackspaceOnlyTick /\ currentSentence = <<>>) =>
        IF SentenceStarts # {} THEN nextPrediction \in SentenceStarts
        ELSE nextPrediction = ""

(* The words that immediately follow a context in a trained sentence *)
Followers(context) ==
    UNION { {trainingData[k][j + 1] :
                j \in {j \in 1..(Len(trainingData[k]) - 1) :
                          trainingData[k][j] = context}} :
            k \in 1..Len(trainingData) }

(* The context ends a trained sentence *)
EndsSentence(context) ==
    \E k \in 1..Len(trainingData) :
        trainingData[k][Len(trainingData[k])] = context

(* C13: with two or more entries in the buffer the context of the prediction
   is the second-to-last word, whether the last word is empty or in
   progress: a context that the trained sentences know gives a word that
   followed it (or the end token if it ended a sentence), every word that
   followed it can be drawn, and training <<"ok", "I", "will">> lets the
   context "ok" return "I" *)
C13_ContextIsSecondToLast ==
    /\ (build = "main" /\ ~markovChain.nil /\ Len(currentSentence) >= 2) =>
          LET context == currentSentence[Len(currentSentence) - 1]
              words == Followers(context) \ {""}
          IN  /\ (context # EndToken /\ "" \notin Followers(context)
                  /\ (words # {} \/ EndsSentence(context))) =>
                     nextPrediction \in
                        words \cup (IF EndsSentence(context) THEN {EndToken} ELSE {})
              /\ \A w \in words :
                    context # EndToken =>
                       [next |-> w, err |-> FALSE] \in Generate(markovChain, context)
    /\ [next |-> "I", err |-> FALSE]
          \in Generate(ChainAdd(NewChain, <<"ok", "I", "will">>), "ok")

(* With "i" in progress after the word "i" the suggestion is "is", the word
   that followed "i" in a trained sentence *)
C13_Witness ==
    /\ currentSentence = <<"i", "i">>
    /\ nextPrediction = "is"
    /\ "is" \in Followers("i")

(* C14: with exactly one word in the buffer, and that word non-empty, the
   suggestion is a word of the frequency map that starts with the case-folded
   word, differs from it and is counted at least as often as every other
   such word; with no such word the suggestion is empty.  The chain has no
   say *)
C14_SingleWordAutocompletes ==
    (build = "main" /\ ~markovChain.nil
     /\ Len(currentSentence) = 1 /\ currentSentence[1] # "") =>
        LET folded == ToLower(currentSentence[1])
            matches == {w \in BagToSet(wordFrequency) :
                           /\ Len(w) > Len(folded)
                           /\ SubSeq(w, 1, Len(folded)) = folded}
        IN  IF matches = {} THEN nextPrediction = ""
            ELSE /\ nextPrediction \in matches
                 /\ \A v \in matches :
                       CopiesIn(v, wordFrequency)
                          <= CopiesIn(nextPrediction, wordFrequency)

(* The sole word "i" is completed to "it", a word of the frequency map that
   never followed "i" in a trained sentence *)
C14_Witness ==
    /\ currentSentence = <<"i">>
    /\ nextPrediction = "it"
    /\ "it" \notin Followers("i")

(* C15: with two or more entries in the buffer and a context the chain has
   no entry for, the suggestion is the fixed fallback: the first word of the
   static list for a context of at most three characters, the fixed default
   word otherwise; it is never empty *)
C15_UnknownContextFallsBack ==
    (build = "main" /\ ~markovChain.nil /\ Len(currentSentence) >= 2) =>
        LET context == currentSentence[Len(currentSentence) - 1]
        IN  (Followers(context) = {} /\ ~EndsSentence(context)) =>
               /\ nextPrediction =
                     IF Len(context) <= 3 THEN commonFollowUps[1] ELSE "the"
               /\ nextPrediction # ""

(* The accepted completion "into" is a context the chain does not know (it
   was trained as "Into") and is longer than three characters: the default
   word is suggested *)
C15_Witness ==
    /\ currentSentence = <<"into", "">>
    /\ Followers("into") = {}
    /\ nextPrediction = DefaultPrediction

----------------------------------------------------------------------------
(* Properties of the acceptance of a suggestion *)

(* The tick pressed R2 and no other button, after startup *)
AcceptOnly(i) ==
    /\ build = "main" /\ ~markovChain.nil
    /\ i.r2 /\ ~i.a /\ ~i.b /\ ~i.x /\ ~i.y

(* C16: accepting a non-empty suggestion s with the word w in progress
   emits the rest of s after len(w) characters and one space, without any
   backspace, if s case-folded starts with w case-folded; otherwise len(w)
   backspaces and then s and one space; with no word in progress s and one
   space.  "morning" accepted on "mo" emits "rning " *)
C16_AcceptEmission ==
    [][(AcceptOnly(in') /\ nextPrediction # "") =>
          LET s == nextPrediction
              w == IF currentSentence = <<>> THEN ""
                   ELSE currentSentence[Len(currentSentence)]
              continues ==
                  /\ Len(w) <= Len(s)
                  /\ ToLower(SubSeq(s, 1, Len(w))) = ToLower(w)
          IN  /\ typed' =
                    IF w = "" THEN << <<"TypeStr", s \o " ">> >>
                    ELSE IF continues
                    THEN << <<"TypeStr", SubSeq(s, Len(w) + 1, Len(s)) \o " ">> >>
                    ELSE [k \in 1..Len(w) |-> <<"KeyTap", "backspace">>]
                         \o << <<"TypeStr", s \o " ">> >>
              /\ \A r \in AcceptStep("main",
                                     [Game EXCEPT !.currentSentence = <<"mo">>,
                                                  !.nextPrediction = "morning"],
                                     in') :
                    r.typed = << <<"TypeStr", "rning ">> >>]_vars

(* The word "ii" in progress after "i" was replaced by the suggestion "is":
   two backspaces, then "is " *)
C16_Witness ==
    /\ AcceptOnly(in)
    /\ before = <<"i", "ii">>
    /\ typed = << <<"KeyTap", "backspace">>, <<"KeyTap", "backspace">>,
                  <<"TypeStr", "is ">> >>

(* C17: after the acceptance of a non-empty suggestion s the buffer is the
   buffer before with its last word replaced by s (s being a new word when
   the buffer was empty or its last word was the empty word in progress),
   followed by exactly one new empty word; accepting with an empty suggestion
   changes nothing: no emission, and the buffer, the raw text log and the
   models are untouched *)
C17_AcceptBuffer ==
    [][AcceptOnly(in') =>
          IF nextPrediction # ""
          THEN LET n == Len(currentSentence)
                   kept == IF n = 0 THEN <<>> ELSE SubSeq(currentSentence, 1, n - 1)
               IN  currentSentence' = kept \o <<nextPrediction, "">>
          ELSE /\ typed' = <<>>
               /\ rawAppended' = <<>>
               /\ currentSentence' = currentSentence
               /\ nextPrediction' = nextPrediction
               /\ markovChain' = markovChain
               /\ wordFrequency' = wordFrequency
               /\ trainingData' = trainingData
               /\ trainingFile' = trainingFile]_vars

(* The suggestion "is" was accepted after "i" and a word break: it took the
   place of the empty word in progress and a new empty word follows *)
C17_Witness ==
    /\ AcceptOnly(in)
    /\ before = <<"i", "">>
    /\ currentSentence = <<"i", "is", "">>

(* C18: the suggestion is recomputed after every mutation of the buffer:
   at the end of a tick that changed the buffer, the stored suggestion is
   one the predictor can produce from the buffer and the models as the tick
   left them; after an Enter it is the suggestion of the empty buffer *)
C18_SuggestionFollowsBuffer ==
    (build = "main" /\ ~markovChain.nil /\ currentSentence # before) =>
        nextPrediction \in {g.nextPrediction : g \in updatePrediction(Game)}

----------------------------------------------------------------------------
(* Properties of the raw text log *)

RECURSIVE EmittedText(_)
(* The literal strings among the emissions of a tick, in emission order: the
   typed strings, and a newline for each Enter key; a backspace is none *)
EmittedText(t) ==
    IF t = <<>> THEN <<>>
    ELSE (IF Head(t)[1] = "TypeStr" THEN <<Head(t)[2]>>
          ELSE IF Head(t) = <<"KeyTap", "enter">> THEN <<"\n">>
          ELSE <<>>)
         \o EmittedText(Tail(t))

(* C19: every literal string main.go emits to the OS (a committed token with
   its case applied, a space, the newline of an Enter, the text typed by an
   acceptance) is appended to the raw text log in the same tick and in
   emission order, whether or not the sentence is ever trained; a backspace
   appends nothing and nothing is ever taken out of the log *)
C19_RawLogComplete ==
    build = "main" => rawAppended = EmittedText(typed)

(* An Enter on a single word, which trains nothing, has logged its newline *)
C19_Witness ==
    /\ build = "main"
    /\ before = <<"i">>
    /\ typed = << <<"KeyTap", "enter">> >>
    /\ rawAppended = <<"\n">>
    /\ trained = 0

----------------------------------------------------------------------------
(* Properties of the startup training *)

(* The cleaned words of each segment of the raw text log: split on sentence
   enders, then on whitespace, punctuation stripped, case folded *)
RawSegments ==
    LET segments == FieldsFunc(rawFile.text, SentenceEnders)
    IN  [k \in 1..Len(segments) |-> CleanWords(Fields(TrimSpace(segments[k])))]

(* The models as the sentence list alone trains them *)
SentenceListModels ==
    TrainAll([Game EXCEPT !.markovChain = NewChain, !.wordFrequency = EmptyBag],
             trainingData)

(* How often a word occurs in the log *)
LogOccurrences(w) ==
    Cardinality(UNION { {<<k, j>> : j \in {j \in 1..Len(RawSegments[k]) :
                                              RawSegments[k][j] = w}} :
                        k \in 1..Len(RawSegments) })

(* How often b follows a in the segments of two or more cleaned words, each
   between a start and an end token *)
LogAdjacencies(a, b) ==
    Cardinality(UNION { {<<k, j>> :
                            j \in {j \in 1..(Len(RawSegments[k]) + 1) :
                                    LET padded == <<StartToken>> \o RawSegments[k]
                                                  \o <<EndToken>>
                                    IN  padded[j] = a /\ padded[j + 1] = b}} :
                        k \in {k \in 1..Len(RawSegments) :
                                 Len(RawSegments[k]) >= 2} })

(* C20: when startup re-parses the raw text log, every word of the log
   raises its frequency count by one per occurrence, the words of one-word
   segments included, and only the segments of two or more cleaned words are
   added to the chain *)
C20_AllLogWordsCounted ==
    (build = "main" /\ ~markovChain.nil /\ rawFile.exists) =>
        /\ \A w \in BagToSet(wordFrequency)
                    \cup UNION {{RawSegments[k][j] : j \in 1..Len(RawSegments[k])} :
                                k \in 1..Len(RawSegments)} :
              CopiesIn(w, wordFrequency)
                 = CopiesIn(w, SentenceListModels.wordFrequency) + LogOccurrences(w)
        /\ \A p \in BagToSet(markovChain.frequencyMat) :
              CopiesIn(p, markovChain.frequencyMat)
                 = CopiesIn(p, SentenceListModels.markovChain.frequencyMat)
                   + LogAdjacencies(p[1], p[2])

----------------------------------------------------------------------------
(* Properties of the models *)

(* The tick pressed Enter (the ring glyph or the Y button) and nothing else *)
EnterOnly(i) ==
    /\ ~i.b /\ ~i.x /\ ~i.r2
    /\ \/ i.y /\ ~i.a
       \/ i.a /\ ~i.y /\ i.mag > DeadZone /\ i.atan = OnEnter.atan

(* The number of entries of a sentence that case-fold to w *)
Occurrences(w, sentence) ==
    Cardinality({k \in 1..Len(sentence) : ToLower(sentence[k]) = w})

(* The case-folded entries of a sentence *)
FoldedWords(sentence) == {ToLower(sentence[k]) : k \in 1..Len(sentence)}

(* The count of w in a frequency map *)
CountOf(freq, w) == CopiesIn(w, freq)

(* The number of entries of a list of sentences that case-fold to w *)
RECURSIVE ListOccurrences(_, _)
ListOccurrences(w, sentences) ==
    IF sentences = <<>> THEN 0
    ELSE Occurrences(w, Head(sentences)) + ListOccurrences(w, Tail(sentences))

(* C21: no count ever decreases; a sentence trained at load or at Enter
   raises the count of each of its case-folded entries by the number
   of times it occurs in the sentence; every other tick leaves all counts
   unchanged *)
C21_EveryEntryCounted ==
    [][/\ \A w \in BagToSet(wordFrequency) :
            CountOf(wordFrequency', w) >= CountOf(wordFrequency, w)
       /\ (~markovChain.nil /\ build = "main") =>
            IF EnterOnly(in') /\ Len(currentSentence) > 1
            THEN \A w \in FoldedWords(currentSentence)
                             \cup BagToSet(wordFrequency') :
                    CountOf(wordFrequency', w) =
                        CountOf(wordFrequency, w) + Occurrences(w, currentSentence)
            ELSE wordFrequency' = wordFrequency
       /\ (markovChain.nil /\ build = "main") =>
            \A w \in BagToSet(wordFrequency') :
                CountOf(wordFrequency', w) = ListOccurrences(w, trainingData')
      ]_vars

(* The suggestions the predictor can draw once the word c is followed by a
   word break *)
SuggestionsAfter(c) ==
    { g.nextPrediction :
        g \in updatePrediction([Game EXCEPT !.currentSentence = <<c, "">>]) }

(* The words of the trained sentences *)
TrainedWords ==
    UNION { {trainingData[k][j] : j \in 1..Len(trainingData[k])} :
            k \in 1..Len(trainingData) }

(* C22: the contexts of the chain are case-folded: a word of a trained
   sentence gives, as the context of a prediction, the same suggestions in
   the letter case it was trained in and case-folded *)
C22_ContextsCaseFolded ==
    (build = "main" /\ ~markovChain.nil) =>
        \A c \in TrainedWords : SuggestionsAfter(c) = SuggestionsAfter(ToLower(c))

(* The words that follow a context in the seed sentences *)
SeedFollowers(context) ==
    UNION { {SeedSentences[k][j + 1] :
                j \in {j \in 1..(Len(SeedSentences[k]) - 1) :
                          SeedSentences[k][j] = context}} :
            k \in 1..Len(SeedSentences) }

(* C23: on a first run every prediction made with the context "good" is a
   word that follows "good" in a seed sentence: morning, afternoon, evening
   or day *)
C23_GoodIsFollowedBySeedWord ==
    (/\ build = "main" /\ ~markovChain.nil
     /\ Len(currentSentence) >= 2
     /\ currentSentence[Len(currentSentence) - 1] = "good") =>
        nextPrediction \in SeedFollowers("good")

----------------------------------------------------------------------------
(* Properties of the files *)

(* What a tick leaves in memory and on the screen *)
InMemory(g) ==
    <<g.currentSet, g.selectedRing, g.selectedIndex, g.uppercase,
      g.sinceLastButton, g.markovChain, g.currentSentence, g.trainingData,
      g.nextPrediction, g.wordFrequency, g.typed>>

(* C24: a tick whose file writes fail completes and leaves the buffer, both
   models, the sentence list and the suggestion as a tick with the same
   inputs and working writes can leave them; the files are the only
   difference *)
C24_FailedWriteOnlyLosesDurability ==
    [][in'.wf =>
          \E s \in UpdateResults(build, Game, [in' EXCEPT !.wf = FALSE]) :
              InMemory(s) =
                  <<currentSet', selectedRing', selectedIndex', uppercase',
                    sinceLastButton', markovChain', currentSentence',
                    trainingData', nextPrediction', wordFrequency', typed'>>
      ]_vars

(* An Enter whose writes failed trained "i i": the sentence is in the list
   in memory and not in the file, and a character was committed afterwards *)
C24_Witness ==
    /\ trained = 1
    /\ Len(trainingData) = Len(StoredSentences) + 1
    /\ trainingData[Len(trainingData)] = <<"i", "i">>
    /\ trainingFile = StoredTrainingFile
    /\ ~in.wf /\ in.a /\ in.atan = OnLetterI.atan
    /\ before = <<>>
    /\ currentSentence = <<"i">>
    /\ rawAppended = <<"i">>

(* How often b follows a in a sentence between its start and end tokens *)
Adjacencies(a, b, sentence) ==
    LET padded == <<StartToken>> \o sentence \o <<EndToken>>
    IN  Cardinality({j \in 1..(Len(padded) - 1) :
                        padded[j] = a /\ padded[j + 1] = b})

RECURSIVE ListAdjacencies(_, _, _)
(* The same over a list of sentences *)
ListAdjacencies(a, b, sentences) ==
    IF sentences = <<>> THEN 0
    ELSE Adjacencies(a, b, Head(sentences))
         + ListAdjacencies(a, b, Tail(sentences))

(* The sentence list the file gives: nothing when the file is missing or is
   not JSON *)
LoadedList ==
    IF trainingFile.exists /\ trainingFile.valid
    THEN Decoded(trainingFile.sentences) ELSE <<>>

(* The file holds something other than a JSON list of lists of strings *)
Malformed ==
    trainingFile.exists
    /\ (~trainingFile.valid \/ HasTypeError(trainingFile.sentences))

(* C25: in the first tick a missing sentence file and a missing raw text
   file log no error; the list in memory is the seed list when the loaded
   list is empty and the loaded list, without the seeds, otherwise; both
   models hold exactly that list and the raw text, and the prediction the
   tick ends with is one the predictor draws from those models *)
C25_SeedsOnlyForEmptyList ==
    [][(build = "main" /\ markovChain.nil) =>
          /\ ~trainingFile.exists =>
                \A k \in 1..Len(logged') : logged'[k] # "loadTrainingData"
          /\ ~rawFile.exists =>
                \A k \in 1..Len(logged') : logged'[k] # "loadRawTextAndTrain"
          /\ trainingData' =
                IF LoadedList = <<>> THEN SeedSentences ELSE LoadedList
          /\ \A w \in BagToSet(wordFrequency') \cup TrainedWords' :
                CountOf(wordFrequency', w) =
                    ListOccurrences(w, trainingData') + LogOccurrences(w)
          /\ \A k \in 1..Len(trainingData') :
                \A j \in 0..Len(trainingData'[k]) :
                    LET padded == <<StartToken>> \o trainingData'[k]
                                  \o <<EndToken>>
                    IN  CopiesIn(<<padded[j + 1], padded[j + 2]>>,
                                 markovChain'.frequencyMat) > 0
          /\ \A p \in BagToSet(markovChain'.frequencyMat) :
                CopiesIn(p, markovChain'.frequencyMat) =
                    ListAdjacencies(p[1], p[2], trainingData')
                    + LogAdjacencies(p[1], p[2])
          /\ nextPrediction' \in
                { g.nextPrediction :
                    g \in updatePrediction(
                            [Game EXCEPT !.markovChain = markovChain',
                                         !.wordFrequency = wordFrequency',
                                         !.currentSentence = currentSentence']) }
      ]_vars

(* On a first run the tick that started the program committed "g" and
   suggests "good", the most frequent seed word starting with g *)
C25_Witness ==
    /\ build = "main"
    /\ ~trainingFile.exists /\ ~rawFile.exists
    /\ trainingData = SeedSentences
    /\ before = <<>>
    /\ currentSentence = <<"g">>
    /\ nextPrediction = "good"
    /\ logged = <<>>

(* C26: a malformed sentence file makes the load fail as a whole: the error
   is logged in the first tick and nothing read from the file reaches the
   list in memory or the models, which hold the seeds and the raw text
   only *)
C26_MalformedFileLoadsNothing ==
    [][(build = "main" /\ markovChain.nil /\ Malformed) =>
          /\ \E k \in 1..Len(logged') : logged'[k] = "loadTrainingData"
          /\ trainingData' = SeedSentences
          /\ \A w \in BagToSet(wordFrequency') :
                CountOf(wordFrequency', w) =
                    ListOccurrences(w, SeedSentences) + LogOccurrences(w)
          /\ \A p \in BagToSet(markovChain'.frequencyMat) :
                CopiesIn(p, markovChain'.frequencyMat) =
                    ListAdjacencies(p[1], p[2], SeedSentences)
                    + LogAdjacencies(p[1], p[2])
      ]_vars

(* The durable sentence list: what the sentence file holds *)
DurableList == IF trainingFile.exists THEN trainingFile.sentences ELSE <<>>

(* The tick was an Enter that trained the buffer and whose writes worked *)
TrainingEnter ==
    /\ build = "main" /\ ~markovChain.nil
    /\ EnterOnly(in') /\ ~in'.wf
    /\ Len(currentSentence) > 1

(* C27: an Enter that trains the sentence s and whose write succeeds leaves
   the durable list as it was before the Enter, followed by s, also on a
   first run, when there was no sentence file *)
C27_DurableListGrowsByOne ==
    [][TrainingEnter =>
          /\ trainingFile'.exists
          /\ trainingFile'.sentences = Append(DurableList, currentSentence)
      ]_vars

(* C27, amended: such an Enter writes the whole list in memory: the list as
   startup set it up (the loaded sentences, or the seed sentences when none
   were loaded) followed by the sentences trained since, s last; this is the
   durable list before the Enter followed by s only when the file held the
   list in memory *)
C27_DurableListIsListInMemory ==
    [][TrainingEnter =>
          /\ trainingFile'.exists /\ trainingFile'.valid
          /\ trainingData' = Append(trainingData, currentSentence)
          /\ trainingFile'.sentences = trainingData'
          /\ DurableList = trainingData =>
                trainingFile'.sentences = Append(DurableList, currentSentence)
      ]_vars

(* On a first run an Enter has trained "i i": the file, which did not exist,
   holds the seed sentences followed by that sentence *)
C27_Witness ==
    /\ EnterOnly(in)
    /\ before = <<"i", "i">>
    /\ trainingFile.exists
    /\ trainingFile.sentences = Append(SeedSentences, <<"i", "i">>)

----------------------------------------------------------------------------
(* Properties of the buffer against the OS text *)

(* The non-empty words of the buffer *)
NonEmptyWords(cs) == SelectSeq(cs, LAMBDA w : w # "")

(* C28: the buffer mirrors the OS text: after any character commits, word
   breaks and backspaces the non-empty words of the buffer are the
   space-separated words of the text the emitted strings and backspace taps
   have produced *)
C28_BufferMirrorsScreen ==
    (build = "main" /\ screen.on) =>
        NonEmptyWords(currentSentence) = FieldsFunc(screen.text, {" "})

----------------------------------------------------------------------------
(* Properties of what is trained and suggested *)

(* A sentence of two or more words, none of them empty *)
WellFormedSentence(sentence) ==
    /\ Len(sentence) >= 2
    /\ \A j \in 1..Len(sentence) : sentence[j] # ""

(* C29: every sentence an Enter adds to the list in memory and to the
   sentence file has two or more words, none of them empty, and the chain
   gains no pair with an empty word; one word, a word break and Enter train
   and persist nothing with an empty word *)
C29_TrainedSentencesWellFormed ==
    [][(build = "main" /\ ~markovChain.nil /\ EnterOnly(in')) =>
          /\ \A k \in (Len(trainingData) + 1)..Len(trainingData') :
                WellFormedSentence(trainingData'[k])
          /\ \A k \in (Len(DurableList) + 1)..Len(DurableList') :
                WellFormedSentence(DurableList'[k])
          /\ \A p \in BagToSet(markovChain'.frequencyMat) :
                (p[1] = "" \/ p[2] = "") =>
                    CopiesIn(p, markovChain'.frequencyMat)
                        = CopiesIn(p, markovChain.frequencyMat)
      ]_vars

(* The start and end markers of the chain *)
Markers == {StartToken, EndToken}

(* C30: the suggestion is empty, a word of a trained sentence or of the
   frequency map, or the fallback word, and never a marker of the chain,
   also after a context that was only seen at the end of a sentence; no
   acceptance types a marker *)
C30_SuggestionIsNeverAMarker ==
    build = "main" =>
        /\ nextPrediction \notin Markers
        /\ \/ nextPrediction = ""
           \/ nextPrediction \in TrainedWords
           \/ nextPrediction \in BagToSet(wordFrequency)
           \/ nextPrediction = DefaultPrediction
        /\ AcceptOnly(in) =>
              \A k \in 1..Len(typed) :
                  \A m \in Markers : typed[k] # <<"TypeStr", m \o " ">>

----------------------------------------------------------------------------
(* Properties of the modifiers *)

(* C31: the token an accepted confirm press emits is the selected token of
   the set chosen by the set modifier as held in the tick of the press, and
   a letter has the case chosen by the case modifier as held in that tick *)
C31_ConfirmUsesModifiersOfItsTick ==
    (in.a /\ ~in.b /\ ~in.x /\ ~in.y /\ ~in.r2 /\ in.mag > DeadZone
     /\ typed # <<>>) =>
        LET selectedChar ==
                Ring(IF in.l1 THEN 1 ELSE 0, selectedRing)[selectedIndex + 1]
            outputChar ==
                IF IsUpperLetter(selectedChar) /\ ~in.r1
                THEN ToLower(selectedChar) ELSE selectedChar
        IN  typed = << <<"TypeStr", outputChar>> >>

====
